---- MODULE Spec2Model ----
(***************************************************************************)
(* Model of azureIaCplan.py, the command-line driver that sequences the    *)
(* merge of the variable files, the provider-mirror configuration, the     *)
(* credential loading and the terraform subcommands of the plan, apply and *)
(* destroy workflows.  One run of main() is one behaviour.  Strings that   *)
(* the program inspects character by character (the operator's response,   *)
(* the lines of the credential file) are sequences of one-character        *)
(* strings.                                                                *)
(***************************************************************************)
EXTENDS Integers, Sequences, FiniteSets, TLC

\* ---------------------------------------------------------------- bounds
\* Longest operator response typed at the destroy prompt.
MaxRespLen == 3
\* External commands exit with a code in 0..MaxExit.
MaxExit == 2
\* How often the mirror configuration is written in a row.
MaxMirrorRuns == 3
\* Runs started at the same time in one composition directory.
NumRuns == 2
\* Requests sent to the HTTP service.
MaxRequests == 4

\* ------------------------------------------------------------- constants
PRECHECK_PLAN == "precheck.tfplan"
PRECHECK_JSON == "precheck.json"
TFVARS_JSON == "all.tfvars.json"
TERRAFORMRC == ".terraformrc"

\* Content marks of a file: never written, left by a previous run, or the
\* name of the step of this run that wrote it.
Absent == "absent"
Stale == "stale"

\* The credential file does not exist.
Missing == <<"<missing>">>

\* -------------------------------------------------------- string helpers
RECURSIVE LStrip(_, _)
\* s without its leading characters that are in cs
LStrip(s, cs) ==
    IF s # <<>> /\ Head(s) \in cs THEN LStrip(Tail(s), cs) ELSE s

RECURSIVE RStrip(_, _)
\* s without its trailing characters that are in cs
RStrip(s, cs) ==
    IF s # <<>> /\ s[Len(s)] \in cs
    THEN RStrip(SubSeq(s, 1, Len(s) - 1), cs) ELSE s

\* str.strip(chars)
StripChars(s, cs) == RStrip(LStrip(s, cs), cs)

Whitespace == {" "}

\* str.strip()
Strip(s) == StripChars(s, Whitespace)

LowerChar(c) ==
    CASE c = "Y" -> "y"
      [] c = "E" -> "e"
      [] c = "S" -> "s"
      [] OTHER -> c

\* str.lower()
Lower(s) == [i \in 1..Len(s) |-> LowerChar(s[i])]

\* ------------------------------------------------------------- main: CLI
Actions == {"none", "plan", "apply", "destroy"}

\* The characters an operator types at the prompt.
RespAlphabet == {"y", "Y", "e", "s", " ", "n"}

Responses == UNION {[1..n -> RespAlphabet] : n \in 0..MaxRespLen}

\* A check that takes the empty answer (a bare Enter) for consent.
IsAffirmativeOrEmpty(r) == Lower(Strip(r)) \in {<<"y", "e", "s">>, <<"y">>, <<>>}

\* response in ['yes', 'y'] after .strip().lower()
IsAffirmative(r) == Lower(Strip(r)) \in {<<"y", "e", "s">>, <<"y">>}

\* ------------------------------------------------------- load_azure_env
\* Index of the first "=" of a line that contains one.
FirstEq(l) == CHOOSE i \in 1..Len(l) : l[i] = "=" /\ \A j \in 1..(i - 1) : l[j] # "="

\* The line survives the filter: not blank, not a comment, has a "=".
IsAssignment(l) == l # <<>> /\ Head(l) # "#" /\ \E i \in 1..Len(l) : l[i] = "="

\* key, value = line.split('=', 1); key.strip()
KeyOf(l) == Strip(SubSeq(l, 1, FirstEq(l) - 1))

\* value.strip().strip('"').strip("'")
ValueOf(l) ==
    StripChars(StripChars(Strip(SubSeq(l, FirstEq(l) + 1, Len(l))), {"\""}), {"'"})

\* os.environ[key] = value
SetEnv(e, k, v) == [x \in (DOMAIN e) \cup {k} |-> IF x = k THEN v ELSE e[x]]

RECURSIVE LoadLines(_, _)
\* The loop over the lines of the credential file.
LoadLines(lines, e) ==
    IF lines = <<>> THEN e
    ELSE LET l == Strip(Head(lines))
         IN LoadLines(Tail(lines),
                      IF IsAssignment(l) THEN SetEnv(e, KeyOf(l), ValueOf(l)) ELSE e)

\* The environment after load_azure_env() on credential file f.
LoadAzureEnvResult(f, e) == IF f = Missing THEN e ELSE LoadLines(f, e)

\* Credential files the run may find (Missing: no file at the path).
EnvFiles ==
    { Missing,
      << <<"K", "=", "b">> >>,
      << <<" ", "K", " ", "=", " ", "'", "b", "'", " ">>, <<"#", "J", "=", "c">> >>,
      << <<"J", "=", "\"", "c", "\"">>, <<"K", "=", "b", "=", "d">> >>,
      << <<>>, <<"K", "J">>, <<"J", "=", "c">> >> }

EmptyEnv == [k \in {} |-> <<>>]

\* Process environments the run may start with.
InitialEnvs ==
    { EmptyEnv,
      [k \in {<<"K">>} |-> <<"x">>],
      [k \in {<<"K">>, <<"J">>} |-> IF k = <<"K">> THEN <<"b">> ELSE <<"y">>] }

\* ------------------------------------------------------------------ state
VARIABLES
    action,     \* args.action ("none": no argument at all)
    yes,        \* the command line carries --yes
    pc,         \* the step main() is about to run
    stepLog,    \* the steps started so far, with their exit codes
    status,     \* running, succeeded, failed, canceled, usage, help
    exitCode,   \* the exit status of the process (-1 while running)
    env,        \* os.environ
    env0,       \* os.environ when the process started
    envFile,    \* the credential file
    fs,         \* per file: Absent, Stale, or the step of this run that wrote it
    backend,    \* how the composition directory is initialised
    response,   \* what the operator typed at the prompt
    applied,    \* the content mark of the plan file terraform apply consumed
    messages,   \* the final messages printed
    cloud,      \* args.cloud
    root,       \* PROJECT_ROOT_DIR, as path segments and separators
    rcContent,  \* the content of .terraformrc
    mergedDoc,  \* the content of all.tfvars.json
    allVars,    \* all_vars, the variables read back from the merged document
    cmdLog,     \* the "Running: <command>" lines printed by run_command
    mirrorRuns, \* how often the mirror configuration has been written
    rcFirst,    \* the content of .terraformrc after the first write
    cAction,    \* concurrent runs: the action of each run
    cPos,       \* concurrent runs: how many steps each run has started
    cStatus,    \* concurrent runs: off, running, failed or done
    planOwner,  \* concurrent runs: the run that last wrote precheck.tfplan
    cApplied,   \* concurrent runs: whose plan file each run's apply consumed
    apiData,    \* app.py: api_data
    lastResponse, \* app.py: the last request and the response to it
    nReq        \* app.py: the number of requests served

runVars == <<action, yes, pc, stepLog, status, exitCode, env, env0, envFile, fs,
             backend, response, applied, messages, cloud, root, rcContent,
             mergedDoc, allVars, cmdLog>>

mirrorVars == <<mirrorRuns, rcFirst>>

concVars == <<cAction, cPos, cStatus, planOwner, cApplied>>

appVars == <<apiData, lastResponse, nReq>>

otherVars == <<mirrorVars, concVars, appVars>>

Runs == 1..NumRuns

\* api_data
ApiData ==
    [products |->
       << [id |-> 1, name |-> "Laptop", price |-> 1200],
          [id |-> 2, name |-> "Keyboard", price |-> 75],
          [id |-> 3, name |-> "Mouse", price |-> 25] >>]

NoRequest == [route |-> "none", method |-> "none", status |-> 0, body |-> <<>>]

\* No concurrent run is started.
ConcIdle ==
    /\ cAction = [r \in Runs |-> "none"]
    /\ cPos = [r \in Runs |-> 0]
    /\ cStatus = [r \in Runs |-> "off"]
    /\ planOwner = 0
    /\ cApplied = [r \in Runs |-> -1]

\* The HTTP service as loaded, before any request.
AppIdle ==
    /\ apiData = ApiData
    /\ lastResponse = NoRequest
    /\ nReq = 0

vars == <<runVars, otherVars>>

\* --------------------------------------------------------- paths, documents
Clouds == {"azure", "aws"}

\* Working directories the script may be started in (os.getcwd()), on
\* POSIX and on Windows.
Roots ==
    { <<"/", "work">>,
      <<"/", "work", "/", "my-vm-stack">>,
      <<"C:", "\\", "work">>,
      <<"C:", "\\", "Users", "\\", "vm-stack">> }

\* os.sep of the platform the working directory belongs to
OsSep(r) == IF \E i \in 1..Len(r) : r[i] = "\\" THEN "\\" ELSE "/"

\* abs_path(path) for a relative path: os.path.join(PROJECT_ROOT_DIR, path)
AbsPath(r, path) == r \o <<OsSep(r)>> \o path

\* The path segments of the model that contain the text vm-stack.
VmStackSegments == {"vm-stack", "my-vm-stack"}

\* abs_path(f"terraform-platform/{cloud}/infra-stack")
CompositionDir(r, c) ==
    AbsPath(r, <<"terraform-platform", "/", c, "/", "infra-stack">>)

\* "vm-stack" in comp_dir
InVmStack(dir) == \E i \in 1..Len(dir) : dir[i] \in VmStackSegments

NoDoc == [k \in {} |-> ""]

SensitiveKey == "admin_public_key"

SensitiveValue == "ssh-rsa-KEY"

\* Documents the merge script may produce from the variable directory.
VarDocs ==
    { NoDoc,
      [k \in {"location"} |-> "eastus"],
      [k \in {"location", SensitiveKey} |-> IF k = "location" THEN "eastus" ELSE ""],
      [k \in {"location", SensitiveKey} |->
          IF k = "location" THEN "eastus" ELSE SensitiveValue] }

\* provider_cache_path.replace('\\', '/')
ToForwardSlashes(path) ==
    [i \in 1..Len(path) |-> IF path[i] = "\\" THEN "/" ELSE path[i]]

\* rc_content: the provider_installation block around the mirror path
RcContent(r) ==
    <<"provider_installation {", "filesystem_mirror {", "path =">>
    \o ToForwardSlashes(
         AbsPath(r, <<"terraform-platform", "/", ".terraform.d", "/", "plugins">>))
    \o <<"}", "direct = []", "}">>

\* A file opened for appending keeps what it held.
AppendFile(old, new) == old \o new

\* open(rc_path, 'w'); f.write(rc_content)
WriteFile(old, new) == new

\* The .terraformrc a previous run left.
StaleRc == <<"provider_installation {", "direct {}", "}">>

\* The document a previous run left in all.tfvars.json.
StaleDoc == [k \in {"location"} |-> "westus"]

Files == {TFVARS_JSON, TERRAFORMRC, PRECHECK_PLAN, PRECHECK_JSON}

NoResponse == <<"<none>">>

\* What a previous run may have left on disk: nothing, the files of a
\* destroy run, or the files of a plan or apply run.
InitialFs ==
    { [f \in Files |-> Absent],
      [f \in Files |-> IF f \in {TFVARS_JSON, TERRAFORMRC} THEN Stale ELSE Absent],
      [f \in Files |-> Stale] }

Init ==
    /\ action \in Actions
    /\ yes \in BOOLEAN
    /\ pc = "parse"
    /\ stepLog = <<>>
    /\ status = "running"
    /\ exitCode = -1
    /\ env \in InitialEnvs
    /\ env0 = env
    /\ envFile \in EnvFiles
    /\ fs \in InitialFs
    /\ backend \in {"none", "local", "remote"}
    /\ response = NoResponse
    /\ applied = "unset"
    /\ messages = {}
    /\ cloud \in Clouds
    /\ root \in Roots
    /\ rcContent = IF fs[TERRAFORMRC] = Stale THEN StaleRc ELSE <<>>
    /\ mirrorRuns = 0
    /\ rcFirst = <<>>
    /\ ConcIdle
    /\ AppIdle
    /\ mergedDoc = IF fs[TFVARS_JSON] = Stale THEN StaleDoc ELSE NoDoc
    /\ allVars = NoDoc
    /\ cmdLog = <<>>

\* ------------------------------------------------------------ command text
\* The -var argument is added whenever the key has a value, whatever the
\* composition.
NeedsAdminKeyAnyDir(dir, doc) ==
    SensitiveKey \in DOMAIN doc /\ doc[SensitiveKey] # ""

\* "vm-stack" in comp_dir and "admin_public_key" in all_vars and
\* all_vars["admin_public_key"]
NeedsAdminKey(dir, doc) ==
    InVmStack(dir) /\ SensitiveKey \in DOMAIN doc /\ doc[SensitiveKey] # ""

\* plan_cmd, as the pieces the f-strings put together
PlanCommand(dir, doc) ==
    <<"terraform", "plan", "-var-file=", TFVARS_JSON>>
    \o (IF NeedsAdminKey(dir, doc)
        THEN <<"-var=", SensitiveKey, "=", doc[SensitiveKey]>>
        ELSE <<>>)
    \o <<"-out=", PRECHECK_PLAN>>

\* The command string each step hands to run_command.
CommandText(step) ==
    CASE step = "merge" -> <<"python", "yaml2tfvars.py", "vars", TFVARS_JSON>>
      [] step = "init_local" -> <<"terraform", "init", "-backend=false">>
      [] step = "validate" -> <<"terraform", "validate">>
      [] step = "plan" -> PlanCommand(CompositionDir(root, cloud), allVars)
      [] step = "show" ->
           <<"terraform", "show", "-json", PRECHECK_PLAN, ">", PRECHECK_JSON>>
      [] step = "init_backend" ->
           <<"terraform", "init", "-backend-config=", "backend.tf">>
      [] step = "apply" -> <<"terraform", "apply", "-auto-approve", PRECHECK_PLAN>>
      [] step = "destroy" ->
           <<"terraform", "destroy", "-var-file=", TFVARS_JSON, "-auto-approve">>

\* print(f"Running: {command}")
Printed(step) == Append(cmdLog, [step |-> step, text |-> CommandText(step)])

\* --------------------------------------------------------- step runners
Logged(step, rc) == Append(stepLog, [step |-> step, rc |-> rc])

\* An exit that reports every failure as status 1 (sys.exit(1)).
ExitAlwaysOne(st, code) ==
    /\ pc' = "exit"
    /\ status' = st
    /\ exitCode' = IF code = 0 THEN 0 ELSE 1

\* An exit that reports the cancellation as an error (sys.exit(1)).
ExitCancelAsError(st, code) ==
    /\ pc' = "exit"
    /\ status' = st
    /\ exitCode' = IF st = "canceled" THEN 1 ELSE code

\* sys.exit(code)
Exit(st, code) ==
    /\ pc' = "exit"
    /\ status' = st
    /\ exitCode' = code

\* run_command called with check=False: a failing command does not stop
\* the run.
RunCommandUnchecked(step, rc, next) ==
    /\ cmdLog' = Printed(step)
    /\ stepLog' = Logged(step, rc)
    /\ pc' = next
    /\ UNCHANGED <<status, exitCode>>

\* run_command: log the command, run it, exit with its code when it fails.
RunCommand(step, rc, next) ==
    /\ cmdLog' = Printed(step)
    /\ stepLog' = Logged(step, rc)
    /\ IF rc # 0
       THEN Exit("failed", rc)
       ELSE pc' = next /\ UNCHANGED <<status, exitCode>>

\* A step whose exception is swallowed (try/except: pass).
PyStepSwallowed(step, raised, next) ==
    /\ stepLog' = Logged(step, IF raised THEN 1 ELSE 0)
    /\ pc' = next
    /\ UNCHANGED <<status, exitCode>>

\* A step of the script itself: an exception it raises is not caught and
\* ends the process with status 1.
PyStep(step, raised, next) ==
    /\ stepLog' = Logged(step, IF raised THEN 1 ELSE 0)
    /\ IF raised
       THEN Exit("failed", 1)
       ELSE pc' = next /\ UNCHANGED <<status, exitCode>>

ExitCodes == 0..MaxExit

Write(f, step) == [fs EXCEPT ![f] = step]

\* A redirection that clobbers the plan file instead of writing the JSON.
ShowOutFileClobbersPlan == PRECHECK_PLAN

\* The file the shell redirection of show_cmd writes: plan_json.
ShowOutFile == PRECHECK_JSON

\* ---------------------------------------------------------------- actions
\* main(): argument parsing and dispatch.
ParseArgs ==
    /\ pc = "parse"
    /\ IF action = "none" /\ ~yes
       THEN Exit("help", 0)            \* len(sys.argv) == 1: print_help
       ELSE IF action = "none" \/ yes
       THEN Exit("usage", 2)           \* parse_args rejects the command line
       ELSE pc' = "merge" /\ UNCHANGED <<status, exitCode>>
    /\ UNCHANGED <<action, yes, stepLog, env, env0, envFile, fs, backend,
                   response, applied, messages>>
    /\ UNCHANGED <<cloud, root, mergedDoc, allVars, cmdLog>>
    /\ UNCHANGED <<rcContent, otherVars>>

\* merge_yaml_to_json
MergeYaml ==
    /\ pc = "merge"
    /\ \E rc \in ExitCodes :
         /\ RunCommand("merge", rc, "mirror")
         /\ fs' = IF rc = 0 THEN Write(TFVARS_JSON, "merge") ELSE fs
         /\ IF rc = 0
            THEN mergedDoc' \in VarDocs
            ELSE mergedDoc' = mergedDoc
    /\ UNCHANGED <<action, yes, env, env0, envFile, backend, response, applied,
                   messages>>
    /\ UNCHANGED <<cloud, root, allVars>>
    /\ UNCHANGED <<rcContent, otherVars>>

\* setup_terraform_provider_mirror, then the caller's next step
SetupMirror ==
    /\ pc = "mirror"
    /\ \E raised \in BOOLEAN :
         /\ PyStep("mirror", raised,
                   IF action = "destroy" THEN "init_backend" ELSE "read_vars")
         /\ fs' = IF raised THEN fs ELSE Write(TERRAFORMRC, "mirror")
         /\ rcContent' = IF raised THEN rcContent
                         ELSE WriteFile(rcContent, RcContent(root))
    /\ UNCHANGED <<action, yes, env, env0, envFile, backend, response, applied,
                   messages>>
    /\ UNCHANGED <<cloud, root, mergedDoc, allVars, cmdLog>>
    /\ UNCHANGED otherVars

\* run_plan_steps: all_vars = json.load(f) when the merged document exists
ReadMergedVars ==
    /\ pc = "read_vars"
    /\ allVars' = IF fs[TFVARS_JSON] # Absent THEN mergedDoc ELSE NoDoc
    /\ pc' = "load_env"
    /\ UNCHANGED <<action, yes, stepLog, status, exitCode, env, env0, envFile,
                   fs, backend, response, applied, messages, cloud, root,
                   mergedDoc, cmdLog>>
    /\ UNCHANGED <<rcContent, otherVars>>

\* Without the os.path.exists test, open() raises on a missing file.
LoadMayRaiseUnguarded(f) == IF f = Missing THEN {TRUE} ELSE {FALSE, TRUE}

\* Whether load_azure_env can raise: only open() and the read can, and only
\* when the file exists.
LoadMayRaise(f) == IF f = Missing THEN {FALSE} ELSE {FALSE, TRUE}

\* terraform_workflow: load_azure_env()
LoadAzureEnv ==
    /\ pc = "load_env"
    /\ \E raised \in LoadMayRaise(envFile) :
         /\ PyStep("load_env", raised, "init_local")
         /\ env' = IF raised THEN env ELSE LoadAzureEnvResult(envFile, env)
         /\ messages' = IF envFile = Missing
                        THEN messages \cup {"env_file_not_found"}
                        ELSE messages
    /\ UNCHANGED <<action, yes, env0, envFile, fs, backend, response, applied>>
    /\ UNCHANGED <<cloud, root, mergedDoc, allVars, cmdLog>>
    /\ UNCHANGED <<rcContent, otherVars>>

\* terraform_workflow: terraform init -backend=false
InitLocal ==
    /\ pc = "init_local"
    /\ \E rc \in ExitCodes :
         /\ RunCommand("init_local", rc,
                       IF action = "destroy" THEN "destroy" ELSE "validate")
         /\ backend' = IF rc = 0 THEN "local" ELSE backend
    /\ UNCHANGED <<action, yes, env, env0, envFile, fs, response, applied,
                   messages>>
    /\ UNCHANGED <<cloud, root, mergedDoc, allVars>>
    /\ UNCHANGED <<rcContent, otherVars>>

\* terraform_workflow: terraform validate
Validate ==
    /\ pc = "validate"
    /\ \E rc \in ExitCodes : RunCommand("validate", rc, "plan")
    /\ UNCHANGED <<action, yes, env, env0, envFile, fs, backend, response,
                   applied, messages>>
    /\ UNCHANGED <<cloud, root, mergedDoc, allVars>>
    /\ UNCHANGED <<rcContent, otherVars>>

\* terraform_workflow: terraform plan -var-file=... -out=plan_file
Plan ==
    /\ pc = "plan"
    /\ \E rc \in ExitCodes :
         /\ RunCommand("plan", rc, "show")
         /\ fs' = IF rc = 0 THEN Write(PRECHECK_PLAN, "plan") ELSE fs
    /\ UNCHANGED <<action, yes, env, env0, envFile, backend, response, applied,
                   messages>>
    /\ UNCHANGED <<cloud, root, mergedDoc, allVars>>
    /\ UNCHANGED <<rcContent, otherVars>>

\* A dispatch that lets every action fall into the apply steps.
AfterPlanStepsFallThrough(a) == "init_backend"

\* What main() does when run_plan_steps() returns: the plan action is done,
\* the apply action goes on to the remote init.
AfterPlanSteps(a) == IF a = "apply" THEN "init_backend" ELSE "finish"

\* terraform_workflow: terraform show -json plan_file > plan_json
Show ==
    /\ pc = "show"
    /\ \E rc \in ExitCodes :
         /\ RunCommand("show", rc, AfterPlanSteps(action))
         /\ fs' = Write(ShowOutFile, "show")
    /\ UNCHANGED <<action, yes, env, env0, envFile, backend, response, applied,
                   messages>>
    /\ UNCHANGED <<cloud, root, mergedDoc, allVars>>
    /\ UNCHANGED <<rcContent, otherVars>>

\* main(): terraform init -backend-config=<backend.tf>
InitBackend ==
    /\ pc = "init_backend"
    /\ \E rc \in ExitCodes :
         /\ RunCommand("init_backend", rc,
                       IF action = "apply" THEN "apply" ELSE "confirm")
         /\ backend' = IF rc = 0 THEN "remote" ELSE backend
    /\ UNCHANGED <<action, yes, env, env0, envFile, fs, response, applied,
                   messages>>
    /\ UNCHANGED <<cloud, root, mergedDoc, allVars>>
    /\ UNCHANGED <<rcContent, otherVars>>

\* main(): terraform apply -auto-approve plan_file
Apply ==
    /\ pc = "apply"
    /\ \E rc \in ExitCodes : RunCommand("apply", rc, "finish")
    /\ applied' = fs[PRECHECK_PLAN]
    /\ UNCHANGED <<action, yes, env, env0, envFile, fs, backend, response,
                   messages>>
    /\ UNCHANGED <<cloud, root, mergedDoc, allVars>>
    /\ UNCHANGED <<rcContent, otherVars>>

\* main(): the confirmation prompt of destroy
Confirm ==
    /\ pc = "confirm"
    /\ \E r \in Responses :
         /\ response' = r
         /\ stepLog' = Logged("confirm", 0)
         /\ IF IsAffirmative(r)
            THEN pc' = "load_env" /\ UNCHANGED <<status, exitCode, messages>>
            ELSE Exit("canceled", 0) /\ messages' = messages \cup {"canceled"}
    /\ UNCHANGED <<action, yes, env, env0, envFile, fs, backend, applied>>
    /\ UNCHANGED <<cloud, root, mergedDoc, allVars, cmdLog>>
    /\ UNCHANGED <<rcContent, otherVars>>

\* terraform_workflow: terraform destroy -var-file=... -auto-approve
Destroy ==
    /\ pc = "destroy"
    /\ \E rc \in ExitCodes : RunCommand("destroy", rc, "finish")
    /\ UNCHANGED <<action, yes, env, env0, envFile, fs, backend, response,
                   applied, messages>>
    /\ UNCHANGED <<cloud, root, mergedDoc, allVars>>
    /\ UNCHANGED <<rcContent, otherVars>>

\* main(): "'<action>' workflow completed successfully."
Finish ==
    /\ pc = "finish"
    /\ Exit("succeeded", 0)
    /\ messages' = messages \cup {"completed"}
    /\ UNCHANGED <<action, yes, stepLog, env, env0, envFile, fs, backend,
                   response, applied>>
    /\ UNCHANGED <<cloud, root, mergedDoc, allVars, cmdLog>>
    /\ UNCHANGED <<rcContent, otherVars>>

Next ==
    \/ ParseArgs
    \/ MergeYaml
    \/ SetupMirror
    \/ ReadMergedVars
    \/ LoadAzureEnv
    \/ InitLocal
    \/ Validate
    \/ Plan
    \/ Show
    \/ InitBackend
    \/ Apply
    \/ Confirm
    \/ Destroy
    \/ Finish

Spec == Init /\ [][Next]_vars

\* The runs whose termination is checked: every command line, with one
\* environment and one working directory, with and without a credential
\* file, on a clean directory.
FairInit ==
    /\ action \in Actions
    /\ yes \in BOOLEAN
    /\ pc = "parse"
    /\ stepLog = <<>>
    /\ status = "running"
    /\ exitCode = -1
    /\ env = EmptyEnv
    /\ env0 = env
    /\ envFile \in {Missing, << <<"K", "=", "b">> >>}
    /\ fs = [f \in Files |-> Absent]
    /\ backend = "none"
    /\ response = NoResponse
    /\ applied = "unset"
    /\ messages = {}
    /\ cloud = "azure"
    /\ root = <<"/", "work">>
    /\ rcContent = <<>>
    /\ mirrorRuns = 0
    /\ rcFirst = <<>>
    /\ ConcIdle
    /\ AppIdle
    /\ mergedDoc = NoDoc
    /\ allVars = NoDoc
    /\ cmdLog = <<>>

\* ------------------------------------------- mirror configuration, re-run
\* setup_terraform_provider_mirror called on its own, any number of times,
\* in any working directory and over any earlier file.
MirrorInit ==
    /\ action = "none"
    /\ yes = FALSE
    /\ pc = "mirror_only"
    /\ stepLog = <<>>
    /\ status = "running"
    /\ exitCode = -1
    /\ env \in InitialEnvs
    /\ env0 = env
    /\ envFile = Missing
    /\ fs \in InitialFs
    /\ backend = "none"
    /\ response = NoResponse
    /\ applied = "unset"
    /\ messages = {}
    /\ cloud \in Clouds
    /\ root \in Roots
    /\ rcContent = IF fs[TERRAFORMRC] = Stale THEN StaleRc ELSE <<>>
    /\ mergedDoc = IF fs[TFVARS_JSON] = Stale THEN StaleDoc ELSE NoDoc
    /\ allVars = NoDoc
    /\ cmdLog = <<>>
    /\ mirrorRuns = 0
    /\ rcFirst = <<>>
    /\ ConcIdle
    /\ AppIdle

\* One more call of setup_terraform_provider_mirror(comp_dir).
MirrorAgain ==
    /\ pc = "mirror_only"
    /\ mirrorRuns < MaxMirrorRuns
    /\ rcContent' = WriteFile(rcContent, RcContent(root))
    /\ fs' = Write(TERRAFORMRC, "mirror")
    /\ mirrorRuns' = mirrorRuns + 1
    /\ rcFirst' = IF mirrorRuns = 0 THEN rcContent' ELSE rcFirst
    /\ UNCHANGED <<action, yes, pc, stepLog, status, exitCode, env, env0,
                   envFile, backend, response, applied, messages, cloud, root,
                   mergedDoc, allVars, cmdLog>>
    /\ UNCHANGED <<concVars, appVars>>

MirrorNext == MirrorAgain

SpecMirror == MirrorInit /\ [][MirrorNext]_vars

\* The steps main() runs for an action, in order, when none fails and the
\* operator consents.
WorkflowSteps(a) ==
    CASE a = "plan" ->
           <<"merge", "mirror", "load_env", "init_local", "validate", "plan",
             "show">>
      [] a = "apply" ->
           <<"merge", "mirror", "load_env", "init_local", "validate", "plan",
             "show", "init_backend", "apply">>
      [] a = "destroy" ->
           <<"merge", "mirror", "init_backend", "confirm", "load_env",
             "init_local", "destroy">>
      [] OTHER -> <<>>

\* A state of the variables of the single run, for the specifications that
\* are not about it.
RunIdle ==
    /\ action = "none"
    /\ yes = FALSE
    /\ pc = "off"
    /\ stepLog = <<>>
    /\ status = "running"
    /\ exitCode = -1
    /\ env = EmptyEnv
    /\ env0 = env
    /\ envFile = Missing
    /\ fs = [f \in Files |-> Absent]
    /\ backend = "none"
    /\ response = NoResponse
    /\ applied = "unset"
    /\ messages = {}
    /\ cloud = "azure"
    /\ root = <<"/", "work">>
    /\ rcContent = <<>>
    /\ mergedDoc = NoDoc
    /\ allVars = NoDoc
    /\ cmdLog = <<>>
    /\ mirrorRuns = 0
    /\ rcFirst = <<>>

\* ------------------------------------- runs started at the same time
\* Several processes run main() with plan or apply in the same composition
\* directory; each step of each run is one external command, and the runs
\* interleave at will.  main() takes no lock.
ConcInit ==
    /\ RunIdle
    /\ AppIdle
    /\ cAction \in [Runs -> {"plan", "apply"}]
    /\ cPos = [r \in Runs |-> 0]
    /\ cStatus = [r \in Runs |-> "running"]
    /\ planOwner = 0
    /\ cApplied = [r \in Runs |-> -1]

\* The step run r is about to start.
ConcNextStep(r) == WorkflowSteps(cAction[r])[cPos[r] + 1]

\* Run r has started its next step, which exited with rc.
ConcAdvance(r, rc) ==
    /\ cPos' = [cPos EXCEPT ![r] = @ + 1]
    /\ cStatus' = [cStatus EXCEPT ![r] =
                      IF rc # 0 THEN "failed"
                      ELSE IF cPos[r] + 1 = Len(WorkflowSteps(cAction[r]))
                      THEN "done" ELSE "running"]

ConcCanStep(r) ==
    /\ cStatus[r] = "running"
    /\ cPos[r] < Len(WorkflowSteps(cAction[r]))

\* A step of run r that leaves the plan file alone.
ConcStep ==
    \E r \in Runs :
        /\ ConcCanStep(r)
        /\ ConcNextStep(r) \notin {"plan", "apply"}
        /\ \E rc \in ExitCodes : ConcAdvance(r, rc)
        /\ UNCHANGED <<cAction, planOwner, cApplied>>
        /\ UNCHANGED <<runVars, mirrorVars, appVars>>

\* terraform plan -out=precheck.tfplan of run r
ConcPlan ==
    \E r \in Runs :
        /\ ConcCanStep(r)
        /\ ConcNextStep(r) = "plan"
        /\ \E rc \in ExitCodes :
              /\ ConcAdvance(r, rc)
              /\ planOwner' = IF rc = 0 THEN r ELSE planOwner
        /\ UNCHANGED <<cAction, cApplied>>
        /\ UNCHANGED <<runVars, mirrorVars, appVars>>

\* terraform apply -auto-approve precheck.tfplan of run r
ConcApply ==
    \E r \in Runs :
        /\ ConcCanStep(r)
        /\ ConcNextStep(r) = "apply"
        /\ \E rc \in ExitCodes : ConcAdvance(r, rc)
        /\ cApplied' = [cApplied EXCEPT ![r] = planOwner]
        /\ UNCHANGED <<cAction, planOwner>>
        /\ UNCHANGED <<runVars, mirrorVars, appVars>>

ConcNext ==
    \/ ConcStep
    \/ ConcPlan
    \/ ConcApply

SpecConc == ConcInit /\ [][ConcNext]_vars

\* ------------------------------------------------------- app.py, the service
AppInit ==
    /\ RunIdle
    /\ ConcIdle
    /\ AppIdle

\* Query strings and request bodies sent to /api/echo.
EchoQueries == {<<>>, <<"q=1">>, <<"q=1", "r=2">>}

\* A body: none, raw bytes, a JSON document, or a body that claims to be
\* JSON and does not parse.
EchoBodies ==
    { [kind |-> "none", data |-> ""],
      [kind |-> "raw", data |-> "hello"],
      [kind |-> "json", data |-> "{\"products\": []}"],
      [kind |-> "json", data |-> "{\"id\": 4}"],
      [kind |-> "badjson", data |-> "{"] }

\* The reply recorded with the request it answers.
Respond(route, method, code, body) ==
    /\ lastResponse' = [route |-> route, method |-> method, status |-> code,
                        body |-> body]
    /\ nReq' = nReq + 1

\* index(): GET /
Index ==
    /\ nReq < MaxRequests
    /\ Respond("/", "GET", 200, <<"Success", "API service is running.">>)
    /\ UNCHANGED apiData
    /\ UNCHANGED <<runVars, mirrorVars, concVars>>

\* health_check(): GET /api/health
HealthCheck ==
    /\ nReq < MaxRequests
    /\ Respond("/api/health", "GET", 200,
               <<"Success", "API is healthy and running.">>)
    /\ UNCHANGED apiData
    /\ UNCHANGED <<runVars, mirrorVars, concVars>>

\* response_data of echo(): method, path, query and the body as JSON, as
\* the parse error, or as raw data
EchoBody(method, query, body) ==
    <<method, "/api/echo", query>>
    \o (CASE body.kind = "json" -> <<"json_body", body.data>>
          [] body.kind = "badjson" -> <<"json_body_error">>
          [] body.kind = "raw" -> <<"raw_data", body.data>>
          [] OTHER -> <<>>)

\* echo(): GET or POST /api/echo
Echo ==
    /\ nReq < MaxRequests
    /\ \E method \in {"GET", "POST"}, query \in EchoQueries, body \in EchoBodies :
         Respond("/api/echo", method, 200, EchoBody(method, query, body))
    /\ UNCHANGED apiData
    /\ UNCHANGED <<runVars, mirrorVars, concVars>>

\* A handler that looks up a key api_data does not have and falls back to
\* the default.
ProductsBodyWrongKey(data) == <<>>

\* api_data.get("products", [])
ProductsBody(data) == data.products

\* get_products(): GET /api/products
GetProducts ==
    /\ nReq < MaxRequests
    /\ Respond("/api/products", "GET", 200, ProductsBody(apiData))
    /\ UNCHANGED apiData
    /\ UNCHANGED <<runVars, mirrorVars, concVars>>

\* not_found_error(): any path without a route
NotFound ==
    /\ nReq < MaxRequests
    /\ \E path \in {"/api", "/api/products/1"}, method \in {"GET", "POST"} :
         Respond(path, method, 404, <<"Error", "Resource not found.">>)
    /\ UNCHANGED apiData
    /\ UNCHANGED <<runVars, mirrorVars, concVars>>

\* A method the route does not list: flask answers 405 itself.
MethodNotAllowed ==
    /\ nReq < MaxRequests
    /\ \E path \in {"/api/health", "/api/products"} :
         Respond(path, "POST", 405, <<>>)
    /\ UNCHANGED apiData
    /\ UNCHANGED <<runVars, mirrorVars, concVars>>

AppNext ==
    \/ Index
    \/ HealthCheck
    \/ Echo
    \/ GetProducts
    \/ NotFound
    \/ MethodNotAllowed

SpecApp == AppInit /\ [][AppNext]_vars

\* Every external command returns and the operator answers the prompt: a
\* run that can take a step takes one.
FairSpec == FairInit /\ [][Next]_vars /\ WF_vars(Next)

\* ------------------------------------------------------------ properties
\* Positions of a step in the log.
At(step) == {i \in 1..Len(stepLog) : stepLog[i].step = step}

Ran(step) == At(step) # {}

\* The names of the steps started so far, in order.
StepNames == [i \in 1..Len(stepLog) |-> stepLog[i].step]

IsPrefix(s, t) == Len(s) <= Len(t) /\ \A i \in 1..Len(s) : s[i] = t[i]

\* The answers that count as consent: yes or y in any letter case, with
\* blanks around them.
Consents(r) ==
    /\ r # NoResponse
    /\ \E w \in {<<"y", "e", "s">>, <<"y">>} :
         \E a, b \in 0..Len(r) :
            /\ a + Len(w) + b = Len(r)
            /\ \A i \in 1..a : r[i] = " "
            /\ \A i \in 1..Len(w) : LowerChar(r[a + i]) = w[i]
            /\ \A i \in 1..b : r[a + Len(w) + i] = " "

\* C1: terraform destroy is executed only after the operator answered the
\* prompt of the same run with yes or y (any case, blanks ignored), or the
\* command line carried the non-interactive override; after any other
\* answer no destroy command is executed.
C1_DestroyOnlyAfterConsent ==
    \A i \in At("destroy") :
        \/ yes
        \/ /\ \E j \in At("confirm") : j < i
           /\ Consents(response)

C1_Witness ==
    /\ Ran("destroy")
    /\ response = <<" ", "Y", " ">>

\* C2: terraform apply and terraform destroy start only when every earlier
\* step of the run has succeeded, the steps their workflow puts before them
\* included.
C2_Required(step) ==
    IF step = "apply"
    THEN {"merge", "mirror", "load_env", "init_local", "validate", "plan",
          "show", "init_backend"}
    ELSE {"merge", "mirror", "load_env", "init_backend"}

C2_MutatingOnlyAfterSuccess ==
    \A i \in At("apply") \cup At("destroy") :
        /\ \A j \in 1..(i - 1) : stepLog[j].rc = 0
        /\ \A s \in C2_Required(stepLog[i].step) : \E j \in At(s) : j < i

C2_Witness ==
    /\ Ran("apply")
    /\ Len(stepLog) = 9

\* C3: the plan file terraform apply consumes was written by the terraform
\* plan step that succeeded earlier in the same run, and every step between
\* that plan step and apply leaves the plan file alone (show reads it, the
\* init against the remote backend does not touch it).
C3_ApplyUsesFreshPlan ==
    /\ applied # "unset" <=> Ran("apply")
    /\ \A k \in At("apply") :
         /\ applied = "plan"
         /\ \E i \in At("plan") :
              /\ i < k
              /\ stepLog[i].rc = 0
              /\ \A j \in (i + 1)..(k - 1) :
                     stepLog[j].step \in {"show", "init_backend"}
              /\ stepLog[k - 1].step = "init_backend"

C3_Witness ==
    /\ Ran("apply")
    /\ applied = "plan"
    /\ status = "succeeded"

\* C4: a destroy run with --yes whose commands all succeed reaches
\* terraform destroy and never prompts the operator.
C4_YesSkipsPrompt ==
    (action = "destroy" /\ yes /\ pc = "exit"
       /\ \A i \in 1..Len(stepLog) : stepLog[i].rc = 0)
    => (Ran("destroy") /\ ~Ran("confirm"))

\* C5: when step N of a workflow fails, no later step is started: the
\* failed step is the last entry of the step log, every entry before it
\* succeeded, the log is the first N steps of the workflow, and the run
\* has ended as failed.
C5_FailureHalts ==
    /\ IsPrefix(StepNames, WorkflowSteps(action))
    /\ \A i \in 1..Len(stepLog) :
         stepLog[i].rc # 0 =>
            /\ i = Len(stepLog)
            /\ pc = "exit"
            /\ status = "failed"
    /\ status = "failed" =>
         /\ stepLog # <<>>
         /\ stepLog[Len(stepLog)].rc # 0

C5_Witness ==
    /\ status = "failed"
    /\ Len(stepLog) = 6
    /\ stepLog[6] = [step |-> "plan", rc |-> 2]

\* C6, as stated: a destroy run the operator declines executes no step
\* that changes local or remote state, before or after the prompt, and
\* ends canceled with exit status 0.
C6_Original ==
    status = "canceled" =>
        /\ \A f \in Files : fs[f] \in {Absent, Stale}
        /\ ~Ran("destroy") /\ ~Ran("apply")
        /\ exitCode = 0

\* C6, amended: a destroy run in which the operator gives any answer that
\* is not a consent executes neither terraform destroy nor terraform apply
\* and starts no step after the prompt; the steps before the prompt
\* (merge, mirror configuration, init against the remote backend) have run,
\* the mirror configuration is rewritten and the plan file is untouched.
\* The run ends canceled with exit status 0, which no failed run has, and
\* without the success message.
C6_DeclineCancels ==
    /\ (response # NoResponse /\ ~Consents(response)) =>
        /\ action = "destroy"
        /\ status = "canceled"
        /\ pc = "exit"
        /\ exitCode = 0
        /\ ~Ran("destroy") /\ ~Ran("apply")
        /\ StepNames = <<"merge", "mirror", "init_backend", "confirm">>
        /\ \A i \in 1..Len(stepLog) : stepLog[i].rc = 0
        /\ fs[TERRAFORMRC] = "mirror"
        /\ fs[PRECHECK_PLAN] \in {Absent, Stale}
        /\ messages = {"canceled"}
    /\ status = "canceled" => (response # NoResponse /\ ~Consents(response))
    /\ status = "failed" => exitCode # 0

C6_Witness ==
    /\ status = "canceled"
    /\ response = <<"n">>

\* C7: every key the environment held before credential loading keeps its
\* value, whatever the credential file contains.
C7_ExplicitEnvWins ==
    \A k \in DOMAIN env0 : k \in DOMAIN env /\ env[k] = env0[k]

\* The steps that shell out to a tool that authenticates against the cloud.
AuthenticatedSteps == {"init_backend", "plan", "apply", "destroy"}

\* C8: credentials are loaded at most once, and exactly once before every
\* step that shells out to an authenticated tool: the init against the
\* remote backend, plan, apply and destroy.
C8_CredentialsFirst ==
    /\ Cardinality(At("load_env")) <= 1
    /\ \A i \in 1..Len(stepLog) :
         stepLog[i].step \in AuthenticatedSteps =>
            \E j \in At("load_env") : j < i /\ stepLog[j].rc = 0

\* C9: terraform destroy follows the init against the remote backend and
\* the confirmation, in this order, and the most recent init before it is
\* the one against the remote backend.
C9_DestroyOnRemoteBackend ==
    \A d \in At("destroy") :
        /\ \E b \in At("init_backend") : \E c \in At("confirm") :
              b < c /\ c < d
        /\ \A l \in At("init_local") : l < d =>
              \E b \in At("init_backend") : l < b /\ b < d

\* C10: the plan workflow starts its steps in the order credentials,
\* merge, mirror, init without backend, validate, plan, show.
C10_PlanOrder ==
    action = "plan" =>
        IsPrefix(StepNames,
                 <<"load_env", "merge", "mirror", "init_local", "validate",
                   "plan", "show">>)
\* C11: when a step fails with code c the process exits with status c, and
\* when every step of the chosen workflow succeeded the process exits with
\* status 0.
C11_ExitCodeMirrors ==
    /\ \A i \in 1..Len(stepLog) :
         stepLog[i].rc # 0 => (pc = "exit" /\ exitCode = stepLog[i].rc)
    /\ (/\ pc = "exit"
        /\ action \in {"plan", "apply", "destroy"}
        /\ StepNames = WorkflowSteps(action)
        /\ \A i \in 1..Len(stepLog) : stepLog[i].rc = 0)
       => exitCode = 0

C11_Witness ==
    /\ pc = "exit"
    /\ stepLog # <<>>
    /\ stepLog[Len(stepLog)] = [step |-> "validate", rc |-> 2]
    /\ exitCode = 2

\* C12: the value of the sensitive variable appears in no logged command
\* text and not in the merged variable document on disk.
C12_SensitiveNeverExposed ==
    /\ \A i \in 1..Len(cmdLog) :
         \A j \in 1..Len(cmdLog[i].text) : cmdLog[i].text[j] # SensitiveValue
    /\ \A k \in DOMAIN mergedDoc : mergedDoc[k] # SensitiveValue

\* C14: with no credential file, credential loading leaves the environment
\* as it was, prints the notice, does not fail, and the run goes on to the
\* next step.
C14_MissingFileContinues ==
    envFile = Missing =>
        /\ env = env0
        /\ \A i \in At("load_env") :
             /\ stepLog[i].rc = 0
             /\ "env_file_not_found" \in messages
             /\ i = Len(stepLog) => (pc = "init_local" /\ status = "running")

C14_Witness ==
    /\ envFile = Missing
    /\ Ran("load_env")
    /\ Ran("init_local")
    /\ DOMAIN env # {}

\* C16: a run of the plan action executes neither terraform apply, nor
\* terraform destroy, nor an init against the remote backend.
C16_PlanIsReadOnly ==
    action = "plan" =>
        /\ ~Ran("apply") /\ ~Ran("destroy") /\ ~Ran("init_backend")
        /\ \A i \in 1..Len(cmdLog) :
             cmdLog[i].step \notin {"apply", "destroy", "init_backend"}
        /\ applied = "unset"

C16_Witness ==
    /\ action = "plan"
    /\ status = "succeeded"
    /\ Len(stepLog) = 7

\* C18: the plan command carries the -var admin_public_key argument exactly
\* when the composition directory path contains vm-stack and the merged
\* variables hold a non-empty admin_public_key; otherwise it carries only
\* the -var-file and -out arguments.
C18_AdminKeyArgument ==
    \A i \in 1..Len(cmdLog) :
        cmdLog[i].step = "plan" =>
            IF /\ InVmStack(CompositionDir(root, cloud))
               /\ SensitiveKey \in DOMAIN allVars
               /\ allVars[SensitiveKey] # ""
            THEN cmdLog[i].text =
                   <<"terraform", "plan", "-var-file=", TFVARS_JSON, "-var=",
                     SensitiveKey, "=", allVars[SensitiveKey], "-out=",
                     PRECHECK_PLAN>>
            ELSE cmdLog[i].text =
                   <<"terraform", "plan", "-var-file=", TFVARS_JSON, "-out=",
                     PRECHECK_PLAN>>

C18_Witness ==
    /\ cmdLog # <<>>
    /\ cmdLog[Len(cmdLog)].step = "plan"
    /\ Len(cmdLog[Len(cmdLog)].text) = 10
\* The observable outcomes of a run that has ended.
Outcomes ==
    {o \in {"succeeded", "failed", "canceled"} :
        \/ o = "succeeded" /\ "completed" \in messages
        \/ o = "failed" /\ \E i \in 1..Len(stepLog) : stepLog[i].rc # 0
        \/ o = "canceled" /\ "canceled" \in messages}

\* C17: every run ends, and it ends in a state where: a run of a workflow
\* has exactly one of the outcomes succeeded, failed at a step and canceled;
\* and the success message has been printed only if every step of the
\* chosen workflow exited with 0, with no failed step and no declined
\* destroy.
C17_EndsInOneOutcome ==
    <>(/\ pc = "exit"
       /\ (action \in {"plan", "apply", "destroy"} /\ ~yes)
            => (Cardinality(Outcomes) = 1 /\ status \in Outcomes)
       /\ ("completed" \in messages) =>
            /\ StepNames = WorkflowSteps(action)
            /\ \A k \in 1..Len(stepLog) : stepLog[k].rc = 0
            /\ "canceled" \notin messages
            /\ (response # NoResponse => Consents(response)))

C17_Witness ==
    /\ pc = "exit"
    /\ action = "destroy"
    /\ "completed" \in messages
\* C15: however often the mirror configuration is written with the same
\* inputs, the file holds what it held after the first write, and nothing
\* else changes: not the environment, not any other file, not the process.
C15_MirrorIdempotent ==
    (pc = "mirror_only" /\ mirrorRuns >= 1) =>
        /\ rcContent = rcFirst
        /\ env = env0
        /\ \A f \in Files \ {TERRAFORMRC} : fs[f] \in {Absent, Stale}
        /\ status = "running" /\ exitCode = -1
        /\ stepLog = <<>> /\ cmdLog = <<>> /\ messages = {}

C15_Witness ==
    /\ mirrorRuns = 3
    /\ root = <<"C:", "\\", "work">>
    /\ rcContent = <<"provider_installation {", "filesystem_mirror {", "path =",
                     "C:", "/", "work", "/", "terraform-platform", "/",
                     ".terraform.d", "/", "plugins", "}", "direct = []", "}">>
    /\ fs[PRECHECK_PLAN] = Stale
\* C13: runs started at the same time in one composition directory never
\* both execute workflow steps, and no run's apply consumes a plan file
\* written by another run.
C13_RunsExcludeEachOther ==
    /\ Cardinality({r \in Runs : cPos[r] > 0}) <= 1
    /\ \A r \in Runs : cApplied[r] \in {-1, r}

\* The interleaving the lock is meant to exclude: a run applies the plan
\* file another run wrote.
C13_CrossApply == \E r \in Runs : cApplied[r] \notin {-1, r}
\* C19: after any sequence of requests the product list is the one the
\* service was loaded with, and GET /api/products answers 200 with the
\* three products Laptop, Keyboard and Mouse.
C19_ProductsUnchanged ==
    /\ apiData.products =
         << [id |-> 1, name |-> "Laptop", price |-> 1200],
            [id |-> 2, name |-> "Keyboard", price |-> 75],
            [id |-> 3, name |-> "Mouse", price |-> 25] >>
    /\ (lastResponse.route = "/api/products" /\ lastResponse.method = "GET") =>
         /\ lastResponse.status = 200
         /\ lastResponse.body =
              << [id |-> 1, name |-> "Laptop", price |-> 1200],
                 [id |-> 2, name |-> "Keyboard", price |-> 75],
                 [id |-> 3, name |-> "Mouse", price |-> 25] >>

C19_Witness ==
    /\ nReq = 4
    /\ lastResponse.route = "/api/products"
    /\ lastResponse.method = "GET"
====
